---------------------------- MODULE Spec2Model ----------------------------
(***************************************************************************)
(* camscrub: the pagination / dispatch pipeline of run() feeding a bounded *)
(* channel that four worker tasks drain (src/src/main.rs).                 *)
(*                                                                         *)
(* Strings are modelled as sequences of one-character strings, so that     *)
(* strip_suffix, is_empty and first() are computed as the code computes    *)
(* them.                                                                   *)
(***************************************************************************)
EXTENDS Integers, Sequences, FiniteSets, TLC

\* ------------------------------------------------------------------ bounds
\* Upper bound on the listing requests one run issues.
MaxRequests == 2
\* Real ids the bulk page carries beyond what the channel can hold.
BulkExtra == 1
\* download() calls made on the one item of DlSpec.
MaxCalls == 2
\* Largest time, in seconds since the epoch, of clocks and Last-Modified.
MaxSec == 2
\* Clock ticks per second: file times are finer than HTTP dates.
SubSecond == 2

\* ------------------------------------------------------- program constants
\* let task_range = 0..4;
NumWorkers == 4
\* async_channel::bounded::<String>(64 * task_range.len())
SlotsPerWorker == 64
QueueCap == SlotsPerWorker * NumWorkers
Workers == 0 .. (NumWorkers - 1)

\* ------------------------------------------------------------------ strings
EMPTY == << >>
\* the literal "_la.jpg" of strip_suffix
LA_SUFFIX == <<"_", "l", "a", ".", "j", "p", "g">>

\* str::strip_suffix: Some(prefix) when s ends with suf, None otherwise;
\* None is modelled by the value "None", which is no string.
strip_suffix(s, suf) ==
    IF Len(s) >= Len(suf) /\ SubSeq(s, Len(s) - Len(suf) + 1, Len(s)) = suf
    THEN SubSeq(s, 1, Len(s) - Len(suf))
    ELSE "None"

\* |img| img.strip_suffix("_la.jpg").map(|s| s.to_owned()).unwrap_or(img)
Normalize(img) ==
    LET r == strip_suffix(img, LA_SUFFIX) IN IF r = "None" THEN img ELSE r

\* Mutant of NormalizePage: the page is collected in reverse order.
NormalizePageReversed(thumbs) ==
    [i \in 1 .. Len(thumbs) |-> Normalize(thumbs[Len(thumbs) + 1 - i])]

\* res.thumbs.into_iter().map(..).collect()
NormalizePage(thumbs) == [i \in 1 .. Len(thumbs) |-> Normalize(thumbs[i])]

\* img_urls.first().cloned().unwrap_or_default()
FirstOrDefault(img_urls) == IF Len(img_urls) = 0 THEN EMPTY ELSE img_urls[1]

\* -------------------------------------------------- the listing endpoint
\* One response carrying more ids than the channel holds: one empty id per
\* worker, then QueueCap + BulkExtra copies of the id "3".
BulkPage ==
    [i \in 1 .. (NumWorkers + QueueCap + BulkExtra) |->
        IF i <= NumWorkers THEN EMPTY ELSE <<"3">>]

\* The `thumbs` arrays the endpoint may answer with.
Pages ==
    { << >>,
      << <<"2">>, <<"1">> >>,
      << <<"1">> \o LA_SUFFIX >>,
      << <<"1">>, EMPTY >>,
      << LA_SUFFIX, EMPTY, EMPTY, EMPTY, <<"2">> >> }

\* What the endpoint may answer to a request whose img parameter is `cursor`:
\* the bulk listing is an answer to the first request (no cursor) only.
Responses(cursor) == IF cursor = EMPTY THEN Pages \cup {BulkPage} ELSE Pages

\* The non-empty ids a worker can be handed.
ItemIds == { <<"1">>, <<"2">>, <<"3">> }

\* Status of download(): Ok(Downloaded), Ok(Exists), Err
DownloadResults == {"Downloaded", "Exists", "Err"}

\* ------------------------------------------------------------------- state
VARIABLES
    dpc,          \* position of run(): "list","send","term","join","done","failed"
    img_oldest,   \* the cursor
    pending,      \* ids of the current page not yet sent (the for loop)
    termIdx,      \* sentinels sent by the terminate loop
    joinIdx,      \* tasks awaited by the join loop
    queue,        \* the bounded channel, FIFO
    closed,       \* every Sender dropped (run() has returned)
    wpc,          \* worker position: "recv", "download", "exited", "cancelled"
    wimg,         \* the id a worker is downloading
    pbPos,        \* pb.position()
    pbLen,        \* pb.length()
    endMsg,       \* finish_with_message: "none", "complete", "partial"
    reqLog,       \* the img parameter of every listing request, in order
    pageLog,      \* the thumbs of every listing response, in order
    sentLog,      \* every value sent on the channel with the loop that sent it
    received,     \* number of values taken off the channel
    attempts,     \* per id, download() calls started
    loadedMsg,    \* per id, "loaded .." lines printed
    failedMsg,    \* per id, "failed to download .." lines printed
    \* -- one download() at a time on one path (DlSpec)
    now,          \* the local clock, in ticks
    rLM,          \* the remote item's Last-Modified, in seconds
    fExists,      \* the destination file exists
    fBytes,       \* its content, one entry per chunk
    fMtime,       \* its modification time, in ticks
    dlpc,         \* position of download(): "idle", "create", "stream", "flush"
    dlExisted,    \* the file existed when the current call started
    dlStatus,     \* status of the current response
    dlHasLM,      \* the response carries a valid Last-Modified header
    dlMtime,      \* modification time taken from the response, in ticks
    dlPos,        \* chunks of the body written so far
    hlog,         \* operations on the file handle of the latest call
    callLog       \* one record per download() call that has returned

\* The state of run() apart from pb.position().
runRest == << dpc, img_oldest, pending, termIdx, joinIdx, queue, closed, wpc,
              wimg, pbLen, endMsg, reqLog, pageLog, sentLog, received,
              attempts, loadedMsg, failedMsg >>

\* The state of the download() under study.
dlVars == << now, rLM, fExists, fBytes, fMtime, dlpc, dlExisted, dlStatus, dlHasLM, dlMtime, dlPos, hlog, callLog >>

vars == << dpc, img_oldest, pending, termIdx, joinIdx, queue, closed, wpc, wimg,
           pbPos, pbLen, endMsg, reqLog, pageLog, sentLog, received, attempts,
           loadedMsg, failedMsg, dlVars >>

dispVars == << dpc, img_oldest, pending, termIdx, joinIdx, pbLen, endMsg,
               reqLog, pageLog, sentLog, closed, dlVars >>
workerVars == << wpc, wimg, pbPos, received, attempts, loadedMsg, failedMsg,
                 dlVars >>

\* In Spec the body of download() is not run: DownloadReturn draws its result.
DlQuiet ==
    /\ now = 0
    /\ rLM = 0
    /\ fExists = FALSE
    /\ fBytes = << >>
    /\ fMtime = 0
    /\ dlpc = "idle"
    /\ dlExisted = FALSE
    /\ dlStatus = 0
    /\ dlHasLM = FALSE
    /\ dlMtime = 0
    /\ dlPos = 0
    /\ hlog = << >>
    /\ callLog = << >>

\* run() when the pagination loop is entered.
RunInit ==
    /\ dpc = "list"
    /\ img_oldest = EMPTY
    /\ pending = << >>
    /\ termIdx = 0
    /\ joinIdx = 0
    /\ queue = << >>
    /\ closed = FALSE
    /\ wpc = [w \in Workers |-> "recv"]
    /\ wimg = [w \in Workers |-> EMPTY]
    /\ pbPos = 0
    /\ pbLen = 0
    /\ endMsg = "none"
    /\ reqLog = << >>
    /\ pageLog = << >>
    /\ sentLog = << >>
    /\ received = 0
    /\ attempts = [i \in ItemIds |-> 0]
    /\ loadedMsg = [i \in ItemIds |-> 0]
    /\ failedMsg = [i \in ItemIds |-> 0]

Init == RunInit /\ DlQuiet

\* ------------------------------------------------------------- dispatcher
\* Mutant of AfterPage: the break condition inverted.
AfterPageInverted(oldest) == IF oldest # EMPTY THEN "term" ELSE "list"

\* if img_oldest.is_empty() { break; }  -- evaluated once the for loop is over
AfterPage(oldest) == IF oldest = EMPTY THEN "term" ELSE "list"

\* One listing request answered with `thumbs`: normalise, set the cursor to
\* the first id, grow the bar's length, then enter the for loop.
ListOk(thumbs) ==
    LET img_urls == NormalizePage(thumbs)
        oldest   == FirstOrDefault(img_urls)
    IN  /\ dpc = "list"
        /\ Len(reqLog) < MaxRequests
        /\ reqLog' = Append(reqLog, img_oldest)
        /\ pageLog' = Append(pageLog, thumbs)
        /\ img_oldest' = oldest
        /\ pbLen' = pbLen + Len(img_urls)
        /\ pending' = img_urls
        /\ dpc' = IF Len(img_urls) = 0 THEN AfterPage(oldest) ELSE "send"
        /\ UNCHANGED << termIdx, joinIdx, endMsg, sentLog, closed, queue >>
        /\ UNCHANGED workerVars

\* Mutant of ListFail: the error is swallowed and taken for the end of the
\* listing, so run() goes on to the terminate loop.
ListFailSwallowed ==
    /\ dpc = "list"
    /\ Len(reqLog) < MaxRequests
    /\ reqLog' = Append(reqLog, img_oldest)
    /\ dpc' = "term"
    /\ UNCHANGED << img_oldest, pending, termIdx, joinIdx, pbLen, endMsg,
                    pageLog, sentLog, queue, closed >>
    /\ UNCHANGED workerVars

\* send() or json() fails: run() returns Err through `?`, dropping img_tx.
ListFail ==
    /\ dpc = "list"
    /\ Len(reqLog) < MaxRequests
    /\ reqLog' = Append(reqLog, img_oldest)
    /\ dpc' = "failed"
    /\ closed' = TRUE
    /\ UNCHANGED << img_oldest, pending, termIdx, joinIdx, pbLen, endMsg,
                    pageLog, sentLog, queue >>
    /\ UNCHANGED workerVars

\* Mutant of CanSend: an unbounded channel.
CanSendUnbounded == TRUE

\* async_channel send: completes only while the channel has room.
CanSend == Len(queue) < QueueCap

\* img_tx.send(img_url).await inside the for loop.  send() returns Err only
\* on a closed channel; run() keeps its own img_rx alive, so with every
\* worker gone the channel stays open and a send on a full channel waits.
SendItem ==
    /\ dpc = "send"
    /\ pending # << >>
    /\ CanSend
    /\ queue' = Append(queue, Head(pending))
    /\ sentLog' = Append(sentLog, [img |-> Head(pending), by |-> "page"])
    /\ pending' = Tail(pending)
    /\ dpc' = IF Tail(pending) = << >> THEN AfterPage(img_oldest) ELSE "send"
    /\ UNCHANGED << img_oldest, termIdx, joinIdx, pbLen, endMsg, reqLog,
                    pageLog, closed >>
    /\ UNCHANGED workerVars

\* for id in task_range { img_tx.send(Default::default()).await.ok(); }
SendSentinel ==
    /\ dpc = "term"
    /\ termIdx < NumWorkers
    /\ CanSend
    /\ queue' = Append(queue, EMPTY)
    /\ sentLog' = Append(sentLog, [img |-> EMPTY, by |-> "term"])
    /\ termIdx' = termIdx + 1
    /\ dpc' = IF termIdx + 1 = NumWorkers THEN "join" ELSE "term"
    /\ UNCHANGED << img_oldest, pending, joinIdx, pbLen, endMsg, reqLog,
                    pageLog, closed >>
    /\ UNCHANGED workerVars

\* Mutant of TaskEnded: the join loop does not wait for the task.
TaskEndedNoWait(w) == TRUE

\* A JoinHandle resolves once its task has ended.
TaskEnded(w) == wpc[w] \in {"exited", "cancelled"}

\* for task in tasks { task.await.ok(); }
JoinTask ==
    /\ dpc = "join"
    /\ joinIdx < NumWorkers
    /\ TaskEnded(joinIdx)
    /\ joinIdx' = joinIdx + 1
    /\ UNCHANGED << dpc, img_oldest, pending, termIdx, pbLen, endMsg, reqLog,
                    pageLog, sentLog, closed, queue >>
    /\ UNCHANGED workerVars

\* if pb.position() == pb.length() { complete } else { partially complete }
EndMessage(pos, len) == IF pos = len THEN "complete" ELSE "partial"

\* finish_with_message(end_msg); Ok(())
Report ==
    /\ dpc = "join"
    /\ joinIdx = NumWorkers
    /\ endMsg' = EndMessage(pbPos, pbLen)
    /\ dpc' = "done"
    /\ closed' = TRUE
    /\ UNCHANGED << img_oldest, pending, termIdx, joinIdx, pbLen, reqLog,
                    pageLog, sentLog, queue >>
    /\ UNCHANGED workerVars

\* ----------------------------------------------------------------- workers
\* What a worker does with a received value: break on the empty string,
\* otherwise call download().
OnReceive(img) == IF img = EMPTY THEN "exited" ELSE "download"

\* while let Ok(img) = img_rx.recv().await { if img.is_empty() { break; } ..
Recv(w) ==
    /\ wpc[w] = "recv"
    /\ queue # << >>
    /\ LET img == Head(queue) IN
        /\ queue' = Tail(queue)
        /\ received' = received + 1
        /\ wpc' = [wpc EXCEPT ![w] = OnReceive(img)]
        /\ wimg' = [wimg EXCEPT ![w] = img]
        /\ attempts' = IF img = EMPTY THEN attempts
                       ELSE [attempts EXCEPT ![img] = @ + 1]
    /\ UNCHANGED << pbPos, loadedMsg, failedMsg >>
    /\ UNCHANGED dispVars

\* recv() on an empty channel whose senders are all gone returns Err: the
\* while-let loop ends.
RecvClosed(w) ==
    /\ wpc[w] = "recv"
    /\ queue = << >>
    /\ closed
    /\ wpc' = [wpc EXCEPT ![w] = "exited"]
    /\ UNCHANGED << wimg, pbPos, received, attempts, loadedMsg, failedMsg, queue >>
    /\ UNCHANGED dispVars

\* Mutant of AfterDownload: an error ends the worker's loop.
AfterDownloadPropagate(res) == IF res = "Err" THEN "exited" ELSE "recv"

\* Where a worker goes once download() has returned `res`.
AfterDownload(res) == "recv"

\* match download(..).await { Ok(v) => { pb.inc(1); .. }, Err(err) => println }
DownloadReturn(w, res) ==
    /\ wpc[w] = "download"
    /\ wpc' = [wpc EXCEPT ![w] = AfterDownload(res)]
    /\ pbPos' = IF res = "Err" THEN pbPos ELSE pbPos + 1
    /\ loadedMsg' = IF res = "Downloaded"
                    THEN [loadedMsg EXCEPT ![wimg[w]] = @ + 1] ELSE loadedMsg
    /\ failedMsg' = IF res = "Err"
                    THEN [failedMsg EXCEPT ![wimg[w]] = @ + 1] ELSE failedMsg
    /\ UNCHANGED << wimg, received, attempts, queue >>
    /\ UNCHANGED dispVars

\* main: rt.block_on(run(opt))? returns the error and drops the runtime,
\* which cancels every task still alive, each parked at an await.
RuntimeDrop ==
    /\ dpc = "failed"
    /\ \E w \in Workers : wpc[w] \in {"recv", "download"}
    /\ wpc' = [w \in Workers |->
                IF wpc[w] \in {"recv", "download"} THEN "cancelled" ELSE wpc[w]]
    /\ UNCHANGED << wimg, pbPos, received, attempts, loadedMsg, failedMsg, queue >>
    /\ UNCHANGED dispVars

Dispatcher ==
    \/ \E thumbs \in Responses(img_oldest) : ListOk(thumbs)
    \/ ListFail
    \/ SendItem
    \/ SendSentinel
    \/ JoinTask
    \/ Report

Worker(w) ==
    \/ Recv(w)
    \/ RecvClosed(w)
    \/ \E res \in DownloadResults : DownloadReturn(w, res)

Next == Dispatcher \/ (\E w \in Workers : Worker(w)) \/ RuntimeDrop

Spec == Init /\ [][Next]_vars

\* The tokio runtime keeps polling every ready task, and every HTTP request
\* ends within the client's 10 s timeout.
FairSpec ==
    /\ Spec
    /\ WF_vars(SendItem) /\ WF_vars(SendSentinel) /\ WF_vars(JoinTask)
    /\ WF_vars(Report)
    /\ \A w \in Workers :
        /\ WF_vars(Recv(w)) /\ WF_vars(RecvClosed(w))
        /\ WF_vars(\E res \in DownloadResults : DownloadReturn(w, res))

\* -------------------------------------------------------------- download()
\* One item, one destination path, download() called on it MaxCalls times in
\* a row (two runs of the program, or one run handed the id twice).

\* The body the remote serves for the item, in chunks; it never changes.
RemoteBody == <<"a", "b">>
\* The body of a response that is not the item (a 300 page).
OtherBody == <<"r">>
Body(st) == IF st = 200 THEN RemoteBody ELSE OtherBody

\* mtime.to_rfc2822(): an HTTP date has whole seconds only.
ToRfc2822(t) == t \div SubSecond

\* DateTime::parse_from_rfc2822(..), later mtime.timestamp_millis()
FromRfc2822(sec) == sec * SubSecond

\* fs::metadata(path).and_then(|md| md.modified()) .. unwrap_or(epoch 0)
Baseline == IF fExists THEN fMtime ELSE 0

\* The remote: 304 iff If-Modified-Since is not earlier than Last-Modified,
\* the item otherwise; 300 and 404 stand for the other statuses.
Answers(ims) == (IF ims >= rLM THEN {304} ELSE {200}) \cup {300, 404}

\* Response::error_for_status: an error for 4xx and 5xx only.
IsErrorStatus(st) == st >= 400 /\ st <= 599

\* Mutant of OnStatus: the NOT_MODIFIED test is missing.
OnStatusNo304(st) == IF IsErrorStatus(st) THEN "Err" ELSE "body"

\* error_for_status()?, then if resp.status() == NOT_MODIFIED { Ok(Exists) }
OnStatus(st) ==
    IF IsErrorStatus(st) THEN "Err"
    ELSE IF st = 304 THEN "Exists"
    ELSE "body"

\* file.set_len(len): the file is len long, zero filled.
Zeros(len) == [i \in 1 .. len |-> "0"]

\* write_all_buf at the file position: overwrite or extend.
WriteAt(bytes, pos, chunk) ==
    IF pos <= Len(bytes) THEN [bytes EXCEPT ![pos] = chunk]
    ELSE Append(bytes, chunk)

\* download() returns res to the worker, whose match counts Ok(_): pb.inc(1).
\* The record keeps what the call saw and left: whether the file existed
\* when it started and when it returned, and the file's bytes.
DlReturn(res, exists, bytes, st, existed) ==
    /\ dlpc' = "idle"
    /\ callLog' = Append(callLog,
          [res |-> res, status |-> st, existed |-> existed,
           exists |-> exists, bytes |-> bytes])
    /\ pbPos' = IF res = "Err" THEN pbPos ELSE pbPos + 1

\* lines 211-234: read the baseline, send the conditional request, look at
\* the status, take the modification time from the response.
DlCall ==
    /\ dlpc = "idle"
    /\ Len(callLog) < MaxCalls
    /\ dlExisted' = fExists
    /\ hlog' = << >>
    /\ dlPos' = 0
    /\ \/ \* send() fails or times out
          /\ dlStatus' = 0
          /\ DlReturn("Err", fExists, fBytes, 0, fExists)
          /\ UNCHANGED << dlHasLM, dlMtime >>
       \/ \E st \in Answers(ToRfc2822(Baseline)), lm \in BOOLEAN :
          /\ dlStatus' = st
          /\ dlHasLM' = lm
          /\ IF OnStatus(st) = "body"
             THEN /\ dlpc' = "create"
                  /\ dlMtime' = IF lm THEN FromRfc2822(rLM) ELSE now
                  /\ UNCHANGED << callLog, pbPos >>
             ELSE /\ DlReturn(OnStatus(st), fExists, fBytes, st, fExists)
                  /\ UNCHANGED dlMtime
    /\ UNCHANGED << now, rLM, fExists, fBytes, fMtime >>
    /\ UNCHANGED runRest

\* lines 236-245: create_dir_all, File::create (truncates), set_len.
DlCreate ==
    /\ dlpc = "create"
    /\ \/ \* create_dir_all or File::create fails
          /\ DlReturn("Err", fExists, fBytes, dlStatus, dlExisted)
          /\ UNCHANGED << fExists, fBytes, fMtime, hlog >>
       \/ \E cl \in BOOLEAN :
          /\ fExists' = TRUE
          /\ fBytes' = IF cl THEN Zeros(Len(Body(dlStatus))) ELSE << >>
          /\ fMtime' = now
          /\ hlog' = IF cl THEN <<"create", "set_len">> ELSE <<"create">>
          /\ dlpc' = "stream"
          /\ UNCHANGED << callLog, pbPos >>
    /\ UNCHANGED << now, rLM, dlExisted, dlStatus, dlHasLM, dlMtime, dlPos >>
    /\ UNCHANGED runRest

\* lines 248-251: one turn of the while loop.
DlChunk ==
    /\ dlpc = "stream"
    /\ dlPos < Len(Body(dlStatus))
    /\ \/ \* the chunk arrives and is written
          /\ fBytes' = WriteAt(fBytes, dlPos + 1, Body(dlStatus)[dlPos + 1])
          /\ fMtime' = now
          /\ dlPos' = dlPos + 1
          /\ hlog' = Append(hlog, "write")
          /\ UNCHANGED << dlpc, callLog, pbPos >>
       \/ \* `chunk?` or write_all_buf(..)? returns the error: the handle is
          \* dropped where it is
          /\ hlog' = Append(hlog, "close")
          /\ DlReturn("Err", fExists, fBytes, dlStatus, dlExisted)
          /\ UNCHANGED << fBytes, fMtime, dlPos >>
    /\ UNCHANGED << now, rLM, fExists, dlExisted, dlStatus, dlHasLM, dlMtime >>
    /\ UNCHANGED runRest

\* lines 252-258: flush, utimes (best effort), Ok(Downloaded).
DlFinish ==
    /\ dlpc = "stream"
    /\ dlPos = Len(Body(dlStatus))
    /\ \/ \* flush fails
          /\ hlog' = hlog \o <<"flush", "close">>
          /\ DlReturn("Err", fExists, fBytes, dlStatus, dlExisted)
          /\ UNCHANGED fMtime
       \/ \E utimesOk \in BOOLEAN :
          /\ hlog' = hlog \o <<"flush", "close">>
          /\ fMtime' = IF utimesOk THEN dlMtime ELSE fMtime
          /\ DlReturn("Downloaded", fExists, fBytes, dlStatus, dlExisted)
    /\ UNCHANGED << now, rLM, fExists, fBytes, dlExisted, dlStatus,
                    dlHasLM, dlMtime, dlPos >>
    /\ UNCHANGED runRest

\* Time passes.  The clock is read between calls: a call is short against
\* a tick, so every time it reads or stamps is the time it started at.
Tick ==
    /\ dlpc = "idle"
    /\ now < MaxSec * SubSecond
    /\ now' = now + 1
    /\ UNCHANGED << rLM, fExists, fBytes, fMtime, dlpc, dlExisted,
                    dlStatus, dlHasLM, dlMtime, dlPos, hlog, callLog >>
    /\ UNCHANGED << runRest, pbPos >>

\* Any clock, any Last-Modified; the file is absent, or the complete copy an
\* earlier download left with the remote's time.
DlInit ==
    /\ RunInit
    /\ now \in 0 .. (MaxSec * SubSecond)
    /\ rLM \in 0 .. MaxSec
    /\ fExists \in BOOLEAN
    /\ fBytes = IF fExists THEN RemoteBody ELSE << >>
    /\ fMtime = IF fExists THEN FromRfc2822(rLM) ELSE 0
    /\ dlpc = "idle"
    /\ dlExisted = FALSE
    /\ dlStatus = 0
    /\ dlHasLM = FALSE
    /\ dlMtime = 0
    /\ dlPos = 0
    /\ hlog = << >>
    /\ callLog = << >>

DlNext == DlCall \/ DlCreate \/ DlChunk \/ DlFinish \/ Tick

DlSpec == DlInit /\ [][DlNext]_vars

\* ------------------------------------------------------------ helpers
\* Indices of the channel sends made by the for loop / the terminate loop.
SentBy(loop) == { i \in DOMAIN sentLog : sentLog[i].by = loop }

\* The cursor the code computes from a response.
CursorOf(thumbs) == FirstOrDefault(NormalizePage(thumbs))

\* Pagination has left the loop through `break`.
PaginationEnded == dpc \in {"term", "join", "done"}
\* Numeric value of an id made of one decimal digit; a larger value is a
\* newer image (the spec's page "200","150","100" is newest-first).
IdValue(id) == CASE id = <<"1">> -> 1 [] id = <<"2">> -> 2 [] id = <<"3">> -> 3

\* The oldest id of a non-empty list of such ids.
OldestOf(ids) ==
    ids[CHOOSE i \in DOMAIN ids :
            \A j \in DOMAIN ids : IdValue(ids[i]) <= IdValue(ids[j])]

\* ------------------------------------------------------------------ claims

\* C1: within one run no normalized ItemId is sent to the work queue by the
\* page loop more than once, whatever pages the endpoint returns.
C1_NoDuplicateDispatch ==
    \A i, j \in SentBy("page") :
        (i # j /\ sentLog[i].img # EMPTY) => sentLog[i].img # sentLog[j].img

\* C2: the terminate loop sends one sentinel per worker (4 once it is over),
\* each of them after the last item of the terminal page, and the final
\* message is reported only when all 4 worker tasks have ended.
C2_SentinelProtocol ==
    /\ Cardinality(SentBy("term")) = termIdx
    /\ termIdx <= NumWorkers
    /\ dpc \in {"join", "done"} => Cardinality(SentBy("term")) = NumWorkers
    /\ \A i \in SentBy("term") :
        /\ sentLog[i].img = EMPTY
        /\ \A j \in SentBy("page") : j < i
    /\ termIdx > 0 => pending = << >> /\ img_oldest = EMPTY /\ pageLog # << >>
    /\ endMsg # "none" => \A w \in Workers : wpc[w] = "exited"

\* C2 witness: a run that dispatched real items has reported its outcome.
C2_Witness ==
    /\ dpc = "done"
    /\ endMsg = "complete"
    /\ SentBy("page") # {}
    /\ Cardinality(SentBy("term")) = NumWorkers

\* C3: once the endpoint has returned a page whose cursor is empty, every
\* worker eventually exits and run() reports its final outcome.
C3_ShutdownLive ==
    (pageLog # << >> /\ CursorOf(pageLog[Len(pageLog)]) = EMPTY)
        ~> (dpc = "done" /\ \A w \in Workers : wpc[w] = "exited")

\* C4: at most one download attempt is made per ItemId in a run, and no two
\* workers are downloading the same ItemId.
C4_AtMostOneAttempt ==
    /\ \A i \in ItemIds : attempts[i] <= 1
    /\ \A v, w \in Workers :
        (v # w /\ wpc[v] = "download" /\ wpc[w] = "download") => wimg[v] # wimg[w]

\* C5: when the final outcome is reported no real (non-empty) item is left
\* unreceived in the queue, and every real item sent was given to download().
C5_AllItemsConsumed ==
    dpc = "done" =>
        /\ \A k \in DOMAIN queue : queue[k] = EMPTY
        /\ \A i \in ItemIds :
            attempts[i] = Cardinality({k \in SentBy("page") : sentLog[k].img = i})

\* C6: every id the page loop enqueues is non-empty; the empty string is
\* sent by the terminate loop only.
C6_RealItemsNonEmpty ==
    \A i \in DOMAIN sentLog : sentLog[i].img = EMPTY => sentLog[i].by = "term"

\* C7: no listing request is issued after a page whose cursor is empty, and
\* pagination ends only right after such a page: if page k is the first with
\* an empty cursor, exactly k requests are issued.
C7_PaginationTermination ==
    /\ \A k \in DOMAIN pageLog :
        CursorOf(pageLog[k]) = EMPTY => (Len(reqLog) = k /\ Len(pageLog) = k)
    /\ PaginationEnded =>
        /\ pageLog # << >>
        /\ CursorOf(pageLog[Len(pageLog)]) = EMPTY
        /\ Len(reqLog) = Len(pageLog)
    /\ (dpc = "list" /\ pageLog # << >>) => CursorOf(pageLog[Len(pageLog)]) # EMPTY

\* C7 witness: pagination ended at the second page, after two requests.
C7_Witness ==
    /\ PaginationEnded
    /\ Len(reqLog) = 2
    /\ CursorOf(pageLog[1]) # EMPTY
    /\ CursorOf(pageLog[2]) = EMPTY

\* C8: the img parameter of the request that follows a page is the oldest id
\* of that page, and the cursor is empty iff the page has no ids.
C8_CursorIsOldest ==
    /\ \A k \in DOMAIN reqLog :
        (k > 1 /\ \A i \in DOMAIN pageLog[k - 1] :
                        Normalize(pageLog[k - 1][i]) \in ItemIds)
            => reqLog[k] = OldestOf(NormalizePage(pageLog[k - 1]))
    /\ PaginationEnded => pageLog[Len(pageLog)] = << >>

\* C9: a download that returns an error leaves its worker receiving, changes
\* no other worker and takes nothing off the queue.
C9_FailureIsolated ==
    [][\A w \in Workers :
        ( /\ wpc[w] = "download"
          /\ wpc'[w] # "download"
          /\ failedMsg'[wimg[w]] = failedMsg[wimg[w]] + 1 )
        => /\ wpc'[w] = "recv"
           /\ \A v \in Workers \ {w} : wpc'[v] = wpc[v] /\ wimg'[v] = wimg[v]
           /\ queue' = queue
           /\ dpc' = dpc]_vars

\* C9 witness: item A failed and item B, enqueued after A, was downloaded.
C9_Witness ==
    \E a, b \in SentBy("page") :
        /\ a < b
        /\ sentLog[a].img \in ItemIds /\ sentLog[b].img \in ItemIds
        /\ sentLog[a].img # sentLog[b].img
        /\ failedMsg[sentLog[a].img] = 1 /\ loadedMsg[sentLog[a].img] = 0
        /\ loadedMsg[sentLog[b].img] = 1
        /\ \A w \in Workers : wpc[w] # "exited"

\* C10: the queue never holds more than 64 x 4 entries; while it is full and
\* the dispatcher waits to send, nothing is enqueued and no listing request
\* is issued unless a worker receives; with no receive so far exactly 256
\* values have been enqueued.
C10_Backpressure ==
    /\ [](Len(queue) <= 64 * 4)
    /\ []((Len(queue) = QueueCap /\ received = 0) => Len(sentLog) = QueueCap)
    /\ [][(Len(queue) = QueueCap /\ dpc \in {"send", "term"})
            => \/ Len(queue') < Len(queue)
               \/ (sentLog' = sentLog /\ reqLog' = reqLog /\ queue' = queue)]_vars

\* C10 witness: workers paused, the dispatcher waits with the queue full.
C10_Witness ==
    /\ Len(queue) = QueueCap
    /\ received = 0
    /\ dpc = "send"
    /\ pending # << >>
    /\ Len(sentLog) = QueueCap
\* ----------------------------------------------- helpers of C11 .. C19
\* A listing request got no page: send() or json() returned an error.
ListingFailed == Len(reqLog) > Len(pageLog)

\* The ids the for loop has sent, in the order sent.
IsPageSend(e) == e.by = "page"
PageSentIds ==
    LET sel == SelectSeq(sentLog, IsPageSend)
    IN  [k \in DOMAIN sel |-> sel[k].img]

\* The ids of the first n pages received, each normalized, concatenated in
\* the order the pages were received.
RECURSIVE FlatPages(_)
FlatPages(n) ==
    IF n = 0 THEN << >>
    ELSE FlatPages(n - 1) \o
         [i \in DOMAIN pageLog[n] |-> Normalize(pageLog[n][i])]

\* How often id occurs in a sequence of ids.
Occurrences(id, ids) == Cardinality({k \in DOMAIN ids : ids[k] = id})

\* C11: once a listing request has failed run() ends with an error: nothing
\* more is enqueued (no item, no sentinel), no further listing request is
\* issued and no final outcome is reported; workers may go on.
C11_FatalListingError ==
    /\ [](ListingFailed => (dpc = "failed" /\ endMsg = "none" /\ termIdx = 0))
    /\ [][ListingFailed' => (sentLog' = sentLog /\ endMsg' = "none")]_vars
    /\ [][ListingFailed => reqLog' = reqLog]_vars

\* C11 witness: the second request failed after the first page was enqueued,
\* and its items have all been received and one of them downloaded.
C11_Witness ==
    /\ ListingFailed
    /\ Len(reqLog) = 2
    /\ SentBy("page") # {}
    /\ received = Len(sentLog)
    /\ \E i \in ItemIds : loadedMsg[i] > 0

\* C12 (as claimed): in a run in which a listing request fails no id of that
\* run's listing is handed to a worker for download.
C12_NoPartialListing ==
    ListingFailed => \A i \in ItemIds : attempts[i] = 0

\* C12 (amended): in a run in which a listing request fails, what was
\* enqueued is exactly the ids of the pages received before the failing
\* request, in full; no sentinel is enqueued, and a worker is handed only
\* such ids, each no more often than it was enqueued.
C12_OnlyEarlierPages ==
    ListingFailed =>
        /\ PageSentIds = FlatPages(Len(pageLog))
        /\ pending = << >>
        /\ SentBy("term") = {}
        /\ \A i \in ItemIds : attempts[i] <= Occurrences(i, PageSentIds)

\* C12 witness: a request failed after a page whose ids went to workers.
C12_Witness ==
    /\ ListingFailed
    /\ Len(pageLog) = 1
    /\ \E i \in ItemIds : attempts[i] > 0

\* C13: the run reports "complete" iff the completed counter equals the
\* number of ids discovered, and "partially complete" exactly when at least
\* one item failed.
C13_FinalOutcome ==
    dpc = "done" =>
        /\ endMsg = "complete" <=> pbPos = pbLen
        /\ endMsg = "partial" <=> \E i \in ItemIds : failedMsg[i] > 0

C19_NoSendDeadlock ==
    (dpc \in {"send", "term"} /\ Len(queue) = QueueCap)
        => \E w \in Workers : wpc[w] \in {"recv", "download"}
\* ----------------------------------------------- helpers of C14 .. C20
\* The record of the call that returned last.
LastCall == callLog[Len(callLog)]

\* A success status.
IsSuccess(st) == st >= 200 /\ st <= 299

\* C14: a call whose response is 304 returns Exists, counts as completed
\* (the position grows by one) and leaves the file as it was: not created,
\* not truncated, nothing written, its modification time untouched.
C14_NotModified ==
    [][(Len(callLog') = Len(callLog) + 1 /\ callLog'[Len(callLog')].status = 304)
        => /\ callLog'[Len(callLog')].res = "Exists"
           /\ pbPos' = pbPos + 1
           /\ fExists' = fExists /\ fBytes' = fBytes /\ fMtime' = fMtime
           /\ hlog' = << >>]_vars

\* C14 witness: a call on an existing complete file was answered 304.
C14_Witness ==
    /\ callLog # << >>
    /\ LastCall.status = 304
    /\ LastCall.res = "Exists"
    /\ LastCall.existed
    /\ fBytes = RemoteBody
    /\ pbPos = Len(callLog)

\* C15: a response whose status is neither 2xx nor 304 makes download()
\* return an error, and the file handle is never opened for it.
C15_OtherStatusIsError ==
    /\ \A k \in DOMAIN callLog :
        (callLog[k].status # 0 /\ ~IsSuccess(callLog[k].status)
            /\ callLog[k].status # 304) => callLog[k].res = "Err"
    /\ (dlStatus # 0 /\ ~IsSuccess(dlStatus) /\ dlStatus # 304) => hlog = << >>

\* The remote answered the first two calls with the item or with 304, and
\* neither call ended in an error.
TwoCleanCalls ==
    /\ Len(callLog) >= 2
    /\ ~callLog[1].existed
    /\ \A k \in 1 .. 2 :
        callLog[k].status \in {200, 304} /\ callLog[k].res # "Err"

\* C16: with no local file and an unchanged remote, two
\* consecutive calls yield Downloaded then Exists, with the same file bytes.
C16_Idempotence ==
    TwoCleanCalls =>
        /\ callLog[1].res = "Downloaded"
        /\ callLog[2].res = "Exists"
        /\ callLog[2].bytes = callLog[1].bytes

\* C18: whenever download() has returned after File::create, the last two
\* operations on the handle were flush, then close. Stated for the calls the
\* remote answered with the item (200), where no other failure is involved.
C18_FlushThenClose ==
    (dlpc = "idle" /\ hlog # << >> /\ dlStatus = 200) =>
        /\ Len(hlog) >= 2
        /\ hlog[Len(hlog) - 1] = "flush"
        /\ hlog[Len(hlog)] = "close"

\* Up to call k the remote answered with the item or with 304, or the
\* request failed in transport.
PlainAnswers(k) == \A j \in 1 .. k : callLog[j].status \in {0, 200, 304}

\* C20: whenever a call on an existing file returns Exists, the file holds
\* the remote item's bytes. Stated for a remote modified after the epoch
\* that only ever answered with the item or with 304.
C20_UnchangedMeansComplete ==
    \A k \in DOMAIN callLog :
        (callLog[k].res = "Exists" /\ callLog[k].existed
            /\ rLM > 0 /\ PlainAnswers(k))
            => callLog[k].bytes = RemoteBody
=============================================================================
